---------------------------- MODULE Spec2Model ----------------------------
(***************************************************************************)
(* Model of src/encoders.py: the hierarchical soft-pooling graph encoder   *)
(* (SoftPoolingGcnEncoder) with the layers it is built from (GraphConv,    *)
(* GcnEncoderGraph).                                                       *)
(*                                                                         *)
(* Tensors are modelled by their shapes (sequences of integers) in the     *)
(* specification Spec, which follows one encoder object through            *)
(* construction, forward passes and loss evaluations.  A torch operation   *)
(* whose operands do not conform raises; the model's ShapeError stands for *)
(* the raised exception.  SpecLoss adds the loss evaluations.              *)
(*                                                                         *)
(* Three further specifications follow single functions on values:         *)
(* SpecMask (construct_mask on node counts), SpecAssign (the Assign step   *)
(* of the first pooling stage on assignment scores) and SpecDep (which     *)
(* elements of the tensors of a forward pass depend on the feature rows of *)
(* one batch entry's padded nodes).  SpecFlow follows which tensor each    *)
(* step of forward reads and which assignment matrix a loss call finds, in  *)
(* sequences of forward and loss calls.                                     *)
(***************************************************************************)
EXTENDS Integers, Sequences, FiniteSets, TLC

VARIABLES
    pc,               \* position of the encoder object / of the running forward pass
    cfg,              \* constructor arguments
    enc,              \* what __init__ built: layer dimensions, node widths
    batch,            \* arguments of the running forward call
    stage,            \* loop index of forward (0 = before the pooling loop)
    x,                \* forward local x (shape)
    adj,              \* forward local adj (shape)
    x_a,              \* forward local x_a (shape)
    embedding_tensor, \* forward local embedding_tensor (shape)
    out_all,          \* forward local out_all: list of readout shapes
    output,           \* forward local output (shape)
    ypred,            \* value returned by forward (shape)
    assign_tensor,    \* attribute self.assign_tensor (shape), NoTensor while unset
    trace,            \* history: steps of the running forward pass, in order
    lossRes,          \* outcome of the last loss call
    mask_call,        \* SpecMask: arguments and result of the last construct_mask call
    assign_vals,      \* SpecAssign: values of the Assign step of stage 1
    dep,              \* SpecDep: dependence of the tensors of a forward pass
    flow              \* SpecFlow: the tensors read and written by forward and loss

\* the encoder object and its running forward pass
fvars == <<pc, cfg, enc, batch, stage, x, adj, x_a, embedding_tensor, out_all,
           output, ypred, assign_tensor, trace, lossRes>>

\* the state of the specifications of single functions
others == <<mask_call, assign_vals, dep, flow>>

vars == <<fvars, others>>

---------------------------------------------------------------------------
(* Bounds of the model *)

MaxNodes == 4
MaxDim == 2
MaxLayers == 3
MaxPooling == 2
MaxBatch == 2
\* assign_ratio ranges over the fractions k / RatioDen, k \in -1 .. RatioDen
RatioDen == 2
\* SpecAssign: nodes per graph, and assignment scores in 0 .. MaxScore
MaxAssignNodes == 2
MaxScore == 1
\* SpecDep: nodes per graph
MaxDepNodes == 3
\* SpecLoss: ent_reg_weight ranges over 0 .. MaxEntWeight
MaxEntWeight == 2
\* SpecFlow: forward calls on one encoder, and the batches they are made on
MaxPasses == 2
NumBatches == 2

(* Program constants *)

\* num_aggs, set by GcnEncoderGraph.__init__
NumAggs == 1
\* the default pred_hidden_dims=[50] of SoftPoolingGcnEncoder.__init__
PredHiddenDim == 50

---------------------------------------------------------------------------
(* Shapes *)

NoTensor == <<>>
ShapeError == <<-1>>

IsShape(s) == s # NoTensor /\ s # ShapeError

\* The element of a one-element set.  The({F(v) : v \in {e}}) is F(e) with e
\* evaluated once and bound to v, the way Python binds a local variable.
The(S) == CHOOSE v \in S : TRUE

\* Python int() of the quotient a / b for b > 0: truncation toward zero
Trunc(a, b) == IF a >= 0 THEN a \div b ELSE -((-a) \div b)

\* broadcast of one dimension
BDim(a, b) == IF a = b THEN a ELSE IF a = 1 THEN b ELSE IF b = 1 THEN a ELSE -1

\* torch.matmul of two batched matrices of rank 3
MatMul(a0, b0) ==
    The({ IF ~IsShape(a) \/ ~IsShape(b) THEN ShapeError
          ELSE IF BDim(a[1], b[1]) = -1 \/ a[3] # b[2] THEN ShapeError
          ELSE <<BDim(a[1], b[1]), a[2], b[3]>> : a \in {a0}, b \in {b0} })

\* torch.transpose(t, 1, 2)
Transpose(a0) ==
    The({ IF ~IsShape(a) THEN ShapeError ELSE <<a[1], a[3], a[2]>> : a \in {a0} })

\* an elementwise operation of two rank-3 tensors (broadcasting)
Broadcast(a0, b0) ==
    The({ IF ~IsShape(a) \/ ~IsShape(b) THEN ShapeError
          ELSE IF \E i \in 1..3 : BDim(a[i], b[i]) = -1 THEN ShapeError
          ELSE [i \in 1..3 |-> BDim(a[i], b[i])] : a \in {a0}, b \in {b0} })

\* nn.Linear(in, out) applied to a tensor whose last axis must be `in`
Linear(input_dim, output_dim) == [input_dim |-> input_dim, output_dim |-> output_dim]

LinearForward(layer, s0) ==
    The({ IF ~IsShape(s) THEN ShapeError
          ELSE IF s[Len(s)] # layer.input_dim THEN ShapeError
          ELSE [i \in 1..Len(s) |-> IF i = Len(s) THEN layer.output_dim ELSE s[i]]
          : s \in {s0} })

\* nn.BatchNorm1d(num_features) on [B, C, L]: C must be num_features
BatchNorm1d(num_features, s0) ==
    The({ IF ~IsShape(s) THEN ShapeError
          ELSE IF s[2] # num_features THEN ShapeError
          ELSE s : s \in {s0} })

\* torch.max(t, dim=1) of a rank-3 tensor: no maximum over an empty axis
MaxDim1(s0) ==
    The({ IF ~IsShape(s) THEN ShapeError
          ELSE IF s[2] = 0 THEN ShapeError
          ELSE <<s[1], s[3]>> : s \in {s0} })

SumSeq(s) ==
    LET acc[i \in 0..Len(s)] == IF i = 0 THEN 0 ELSE acc[i - 1] + s[i]
    IN  acc[Len(s)]


---------------------------------------------------------------------------
(* GraphConv *)

GraphConv(input_dim, output_dim, add_self) ==
    [input_dim |-> input_dim, output_dim |-> output_dim, add_self |-> add_self]

\* GraphConv.forward: y = adj @ x; y += x if add_self; y = y @ weight (+ bias);
\* the L2 normalisation keeps the shape
GraphConv_forward(layer, xs0, as0) ==
    The({ The({ IF ~IsShape(y) THEN ShapeError
                ELSE IF layer.add_self /\ Broadcast(y, xs) # y THEN ShapeError
                ELSE IF y[3] # layer.input_dim THEN ShapeError
                ELSE <<y[1], y[2], layer.output_dim>> : y \in {MatMul(as, xs)} })
          : xs \in {xs0}, as \in {as0} })

---------------------------------------------------------------------------
(* GcnEncoderGraph: the builders and gcn_forward *)

build_conv_layers(input_dim, hidden_dim, embedding_dim, num_layers, add_self) ==
    [conv_first |-> GraphConv(input_dim, hidden_dim, add_self),
     conv_block |-> [i \in 1..(num_layers - 2) |->
                        GraphConv(hidden_dim, hidden_dim, add_self)],
     conv_last  |-> GraphConv(hidden_dim, embedding_dim, add_self)]

\* the Linear layers of the prediction head, in order (the ReLUs between them
\* keep the shape)
build_pred_layers(pred_input_dim, pred_hidden_dims, label_dim, num_aggs) ==
    LET pin == pred_input_dim * num_aggs
        n == Len(pred_hidden_dims)
    IN  IF n = 0 THEN <<Linear(pin, label_dim)>>
        ELSE [i \in 1..(n + 1) |->
                IF i = n + 1 THEN Linear(pred_hidden_dims[n], label_dim)
                ELSE Linear(IF i = 1 THEN pin ELSE pred_hidden_dims[i - 1],
                            pred_hidden_dims[i])]

\* the layers applied in order
pred_forward(layers, s) ==
    LET h[i \in 0..Len(layers)] ==
            IF i = 0 THEN s ELSE LinearForward(layers[i], h[i - 1])
    IN  h[Len(layers)]

\* one entry of a bn_layers list
BatchNormLayer(num_features) == [kind |-> "BatchNorm1d", num_features |-> num_features]
EmptyModuleList == [kind |-> "ModuleList"]

\* bn_layers[i](x), i counted from 1
apply_bn(bn_layers, i, s) ==
    IF i > Len(bn_layers) THEN ShapeError
    ELSE IF bn_layers[i].kind # "BatchNorm1d" THEN ShapeError
    ELSE BatchNorm1d(bn_layers[i].num_features, s)

\* construct_mask as a shape: [batch_size x max_nodes x 1]
construct_mask_shape(max_nodes, batch_size) == <<batch_size, max_nodes, 1>>

\* the loop of gcn_forward over conv_block: h[i] is x after i iterations
gcn_block(xs, as, conv_block, bn_layers, usebn) ==
    LET h[i \in 0..Len(conv_block)] ==
            IF i = 0 THEN xs
            ELSE The({ IF usebn THEN apply_bn(bn_layers, i + 1, y) ELSE y
                       : y \in {GraphConv_forward(conv_block[i], h[i - 1], as)} })
    IN  h[Len(conv_block)]

\* gcn_forward: the embedding tensor [batch_size x num_nodes x width], where
\* width adds up the output widths of all layers (torch.cat(x_all, dim=2) is
\* taken whatever self.concat says)
gcn_forward(bn, xs, as, stack, embedding_mask, bn_layers, nobn) ==
    LET usebn == bn /\ ~nobn
        y1 == GraphConv_forward(stack.conv_first, xs, as)
        x1 == IF usebn THEN apply_bn(bn_layers, 1, y1) ELSE y1
        xk == gcn_block(x1, as, stack.conv_block, bn_layers, usebn)
        width == stack.conv_first.output_dim
                 + SumSeq([i \in 1..Len(stack.conv_block) |->
                              stack.conv_block[i].output_dim])
                 + stack.conv_last.output_dim
    IN  The({ The({ IF embedding_mask # NoTensor
                    THEN Broadcast(x_tensor, embedding_mask)
                    ELSE x_tensor
                    : x_tensor \in {IF ~IsShape(xl) THEN ShapeError
                                    ELSE <<xl[1], xl[2], width>>} })
              : xl \in {GraphConv_forward(stack.conv_last, xk, as)} })

---------------------------------------------------------------------------
(* SoftPoolingGcnEncoder.__init__ *)

\* the value of assign_dim when stage i (1, 2, ...) is built
assign_dim_at(c, i) ==
    LET d[k \in 1..i] ==
            IF k = 1 THEN Trunc(c.max_num_nodes * c.ratio_num, RatioDen)
            ELSE Trunc(d[k - 1] * c.ratio_num, RatioDen)
    IN  d[i]

\* the value of num_nodes when the batch normalisation of stage i is built
pooling_num_nodes(c, i) == Trunc(c.max_num_nodes * c.ratio_num, RatioDen)

pred_input_dim_of(c) ==
    IF c.concat THEN c.hidden_dim * (c.num_layers - 1) + c.embedding_dim
    ELSE c.embedding_dim

SoftPoolingGcnEncoder_init(c) ==
    LET add_self == ~c.concat
        pred_input_dim == pred_input_dim_of(c)
        assign_num_layers == IF c.assign_num_layers = -1 THEN c.num_layers
                             ELSE c.assign_num_layers
        K == c.num_pooling
    IN  [concat |-> c.concat,
         bn |-> TRUE,
         num_layers |-> c.num_layers,
         label_dim |-> c.label_dim,
         num_pooling |-> K,
         linkpred |-> c.linkpred,
         ent_reg_weight |-> c.ent_reg_weight,
         pred_input_dim |-> pred_input_dim,
         conv |-> build_conv_layers(c.input_dim, c.hidden_dim, c.embedding_dim,
                                    c.num_layers, add_self),
         bn_layers |-> [i \in 1..(c.num_layers - 1 + K) |->
                          IF i <= c.num_layers - 1
                          THEN BatchNormLayer(c.max_num_nodes)
                          ELSE EmptyModuleList],
         conv_after_pool |-> [i \in 1..K |->
             build_conv_layers(pred_input_dim, c.hidden_dim, c.embedding_dim,
                               c.num_layers, add_self)],
         pooling_bn_layers |-> [i \in 1..K |->
             [j \in 1..(c.num_layers - 1) |->
                 BatchNormLayer(pooling_num_nodes(c, i))]],
         assign_dims |-> [i \in 1..K |-> assign_dim_at(c, i)],
         assign_conv |-> [i \in 1..K |->
             build_conv_layers(IF i = 1 THEN c.input_dim ELSE pred_input_dim,
                               c.assign_hidden_dim, assign_dim_at(c, i),
                               assign_num_layers, add_self)],
         assign_pred |-> [i \in 1..K |->
             build_pred_layers(
                 IF c.concat
                 THEN c.assign_hidden_dim * (c.num_layers - 1) + assign_dim_at(c, i)
                 ELSE assign_dim_at(c, i),
                 <<>>, assign_dim_at(c, i), 1)],
         pred_model |-> build_pred_layers(pred_input_dim * (K + 1),
                                          <<PredHiddenDim>>, c.label_dim, NumAggs)]

\* the sizes of the parameter tensors __init__ allocates that depend on the
\* shrink ratio (all others are positive constructor arguments)
AllocatedSizes(e) ==
    {e.assign_dims[i] : i \in 1..e.num_pooling}
    \cup {e.pooling_bn_layers[i][j].num_features :
            i \in 1..e.num_pooling, j \in 1..(e.num_layers - 1)}

---------------------------------------------------------------------------
(* The encoder object: construction *)

\* Constructor arguments.  assign_ratio is ratio_num / RatioDen.  The forward
\* pass reads neither linkpred nor ent_reg_weight, and loss reads no layer
\* width: Spec varies the widths, SpecLoss the two loss switches.
Configs ==
    [max_num_nodes : 1..MaxNodes,
     input_dim : 1..MaxDim,
     hidden_dim : 1..MaxDim,
     embedding_dim : 1..MaxDim,
     label_dim : 1..MaxDim,
     num_layers : 2..MaxLayers,
     assign_hidden_dim : 1..MaxDim,
     ratio_num : (-1)..RatioDen,
     assign_num_layers : {-1} \cup (2..MaxLayers),
     num_pooling : 0..MaxPooling,
     concat : BOOLEAN,
     linkpred : {TRUE},
     ent_reg_weight : {0}]

LossConfigs ==
    [max_num_nodes : 1..MaxNodes,
     input_dim : {1},
     hidden_dim : {1},
     embedding_dim : {1},
     label_dim : {MaxDim},
     num_layers : {2},
     assign_hidden_dim : {1},
     ratio_num : (-1)..RatioDen,
     assign_num_layers : {-1} \cup (2..MaxLayers),
     num_pooling : 0..MaxPooling,
     concat : BOOLEAN,
     linkpred : BOOLEAN,
     ent_reg_weight : 0..MaxEntWeight]

NoConfig == [num_pooling |-> -1]
NoEncoder == [num_pooling |-> -1]
NoBatch == [B |-> 0, given |-> FALSE]
NoLoss == [outcome |-> "none"]
NoMaskCall == [max_nodes |-> 0, batch_num_nodes |-> <<>>,
               result |-> [outcome |-> "none", mask |-> <<>>]]
NoAssign == [pc |-> "none"]
NoDep == [pc |-> "none"]
NoFlow == [pc |-> "NoEncoder"]

Init ==
    /\ pc = "NoEncoder"
    /\ cfg = NoConfig
    /\ enc = NoEncoder
    /\ batch = NoBatch
    /\ stage = 0
    /\ x = NoTensor
    /\ adj = NoTensor
    /\ x_a = NoTensor
    /\ embedding_tensor = NoTensor
    /\ out_all = <<>>
    /\ output = NoTensor
    /\ ypred = NoTensor
    /\ assign_tensor = NoTensor
    /\ trace = <<>>
    /\ lossRes = NoLoss
    /\ mask_call = NoMaskCall
    /\ assign_vals = NoAssign
    /\ dep = NoDep
    /\ flow = NoFlow

\* SoftPoolingGcnEncoder(...): __init__ checks none of its arguments.  torch
\* refuses to allocate a parameter tensor with a negative size; a parameter
\* tensor with a zero size is allocated and initialised by some torch builds
\* and refused by the initialisers of others.
Construct(C) ==
    /\ pc = "NoEncoder"
    /\ \E c \in C :
         LET e == SoftPoolingGcnEncoder_init(c)
             sizes == AllocatedSizes(e)
         IN  /\ cfg' = c
             /\ \/ /\ \A n \in sizes : n >= 0
                   /\ pc' = "Idle"
                   /\ enc' = e
                \/ /\ \E n \in sizes : n <= 0
                   /\ pc' = "ConstructFailed"
                   /\ enc' = NoEncoder
    /\ UNCHANGED <<others, batch, stage, x, adj, x_a, embedding_tensor, out_all, output,
                   ypred, assign_tensor, trace, lossRes>>

---------------------------------------------------------------------------
(* SoftPoolingGcnEncoder.forward, step by step *)

Callable == pc \in {"Idle", "Terminal", "Failed"}

\* what a step leaves behind when an operation of it raises
Raise == pc' = "Failed" /\ UNCHANGED <<trace, stage>>

Enter(step) == pc' = step[1] /\ trace' = Append(trace, step)

\* the call forward(x, adj, batch_num_nodes) on a batch [B,N,F] / [B,N,N]
ForwardCall ==
    /\ Callable
    /\ \E b \in 1..MaxBatch, given \in BOOLEAN :
         /\ batch' = [B |-> b, given |-> given]
         /\ x' = <<b, cfg.max_num_nodes, cfg.input_dim>>
         /\ adj' = <<b, cfg.max_num_nodes, cfg.max_num_nodes>>
    /\ pc' = "Initial"
    /\ trace' = << <<"Initial", 0>> >>
    /\ stage' = 0
    /\ x_a' = NoTensor
    /\ embedding_tensor' = NoTensor
    /\ out_all' = <<>>
    /\ output' = NoTensor
    /\ ypred' = NoTensor
    /\ lossRes' = NoLoss
    /\ UNCHANGED <<others, cfg, enc, assign_tensor>>

\* the mask forward builds from batch_num_nodes (None when it is None)
forward_mask == IF batch.given THEN construct_mask_shape(adj[2], batch.B)
                ELSE NoTensor

\* lines 319-331: x_a, max_num_nodes, embedding_mask, out_all
Initial ==
    /\ pc = "Initial"
    /\ x_a' = x
    /\ out_all' = <<>>
    /\ Enter(<<"Embed", 0>>)
    /\ UNCHANGED <<others, cfg, enc, batch, stage, x, adj, embedding_tensor, output, ypred,
                   assign_tensor, lossRes>>

\* the embedding pass of the current stage and its readout
Embed ==
    /\ pc = "Embed"
    /\ \E et \in {IF stage = 0
                    THEN gcn_forward(enc.bn, x, adj, enc.conv, forward_mask,
                                     enc.bn_layers, FALSE)
                    ELSE gcn_forward(enc.bn, x, adj, enc.conv_after_pool[stage],
                                     NoTensor, enc.pooling_bn_layers[stage], FALSE)} :
       LET out == MaxDim1(et)
       IN  IF ~IsShape(et)
           THEN Raise /\ UNCHANGED <<embedding_tensor, out_all>>
           ELSE /\ embedding_tensor' = et
                /\ IF ~IsShape(out)
                   THEN Raise /\ UNCHANGED out_all
                   ELSE /\ out_all' = Append(out_all, out)
                        /\ IF stage < enc.num_pooling
                           THEN /\ stage' = stage + 1
                                /\ Enter(<<"Assign", stage + 1>>)
                           ELSE /\ stage' = stage
                                /\ Enter(<<"Aggregate", 0>>)
    /\ UNCHANGED <<others, cfg, enc, batch, x, adj, x_a, output, ypred, assign_tensor,
                   lossRes>>

\* the mask of the assignment pass: built for the first stage only
assign_mask == IF batch.given /\ stage = 1
               THEN construct_mask_shape(cfg.max_num_nodes, batch.B)
               ELSE NoTensor

\* lines 351-362: self.assign_tensor is assigned three times
Assign ==
    /\ pc = "Assign"
    /\ \E t1 \in {gcn_forward(enc.bn, x_a, adj, enc.assign_conv[stage],
                                assign_mask, enc.bn_layers, TRUE)} :
       LET t2 == pred_forward(enc.assign_pred[stage], t1)
           t3 == IF assign_mask # NoTensor THEN Broadcast(t2, assign_mask) ELSE t2
       IN  IF ~IsShape(t1) THEN Raise /\ UNCHANGED assign_tensor
           ELSE IF ~IsShape(t2) THEN Raise /\ assign_tensor' = t1
           ELSE IF ~IsShape(t3) THEN Raise /\ assign_tensor' = t2
           ELSE /\ assign_tensor' = t3
                /\ Enter(<<"Pool", stage>>)
                /\ stage' = stage
    /\ UNCHANGED <<others, cfg, enc, batch, x, adj, x_a, embedding_tensor, out_all, output,
                   ypred, lossRes>>

\* lines 365-367
Pool ==
    /\ pc = "Pool"
    /\ LET St == Transpose(assign_tensor)
           nx == MatMul(St, embedding_tensor)
           nadj == MatMul(MatMul(St, adj), assign_tensor)
       IN  IF ~IsShape(nx) THEN Raise /\ UNCHANGED <<x, adj, x_a>>
           ELSE IF ~IsShape(nadj) THEN Raise /\ x' = nx /\ UNCHANGED <<adj, x_a>>
           ELSE /\ x' = nx
                /\ adj' = nadj
                /\ x_a' = nx
                /\ Enter(<<"Embed", stage>>)
                /\ stage' = stage
    /\ UNCHANGED <<others, cfg, enc, batch, embedding_tensor, out_all, output, ypred,
                   assign_tensor, lossRes>>

\* torch.cat(out_all, dim=1) of rank-2 tensors: the batch sizes must agree
CatDim1(ts) ==
    IF \E i \in 1..Len(ts) : ts[i][1] # ts[1][1] THEN ShapeError
    ELSE <<ts[1][1], SumSeq([i \in 1..Len(ts) |-> ts[i][2]])>>

\* lines 382-385; `out` is the last readout computed
Aggregate ==
    /\ pc = "Aggregate"
    /\ LET o == IF enc.concat THEN CatDim1(out_all) ELSE out_all[Len(out_all)]
       IN  IF ~IsShape(o) THEN Raise /\ UNCHANGED output
           ELSE output' = o /\ Enter(<<"Predict", 0>>) /\ stage' = stage
    /\ UNCHANGED <<others, cfg, enc, batch, x, adj, x_a, embedding_tensor, out_all, ypred,
                   assign_tensor, lossRes>>

\* lines 386-387
Predict ==
    /\ pc = "Predict"
    /\ LET y == pred_forward(enc.pred_model, output)
       IN  IF ~IsShape(y) THEN Raise /\ UNCHANGED ypred
           ELSE ypred' = y /\ Enter(<<"Terminal", 0>>) /\ stage' = stage
    /\ UNCHANGED <<others, cfg, enc, batch, x, adj, x_a, embedding_tensor, out_all, output,
                   assign_tensor, lossRes>>

---------------------------------------------------------------------------
(* SoftPoolingGcnEncoder.loss *)

NoCounts == <<>>

\* total_loss with the entropy term added unweighted
total_loss_unweighted(linkpred, ent_reg_weight) ==
    LET loss0 == [primary |-> 1, link |-> 0, entropy |-> 0]
        loss1 == IF linkpred THEN [loss0 EXCEPT !.link = @ + 1] ELSE loss0
        loss2 == IF ent_reg_weight > 0
                 THEN [loss1 EXCEPT !.entropy = @ + 1]
                 ELSE loss1
    IN  loss2

\* The value loss returns, as the coefficients of the primary cross-entropy
\* (line 395), of the link-reconstruction loss (lines 408-424) and of the
\* entropy loss (lines 426-432, torch.sum(ent_loss) / num_entries taken
\* ent_reg_weight times) in the sum
total_loss(linkpred, ent_reg_weight) ==
    LET loss0 == [primary |-> 1, link |-> 0, entropy |-> 0]
        loss1 == IF linkpred THEN [loss0 EXCEPT !.link = @ + 1] ELSE loss0
        loss2 == IF ent_reg_weight > 0
                 THEN [loss1 EXCEPT !.entropy = @ + ent_reg_weight]
                 ELSE loss1
    IN  loss2

\* what a loss call reads of its arguments and of the encoder: pred, label
\* and adj in every call (lines 395-396), self.assign_tensor and
\* batch_num_nodes under the conditions of lines 397, 408 and 426 only
loss_reads(linkpred, ent_reg_weight) ==
    {"pred", "label", "adj"}
    \cup (IF linkpred \/ ent_reg_weight > 0
          THEN {"assign_tensor", "batch_num_nodes"} ELSE {})

\* loss(pred, label, adj, batch_num_nodes) on an encoder e whose attribute
\* assign_tensor is S, for adj of shape adjs and node counts nn (NoCounts for
\* None).  The result records how the call ended and what it computed:
\* "value" for a finite loss, "nonfinite" for a loss that is inf or nan,
\* "AttributeError" and "ShapeError" for a raised exception.
loss(e, S, adjs, nn) ==
    LET structural == e.linkpred \/ e.ent_reg_weight > 0
        max_num_nodes == adjs[2]
        given == nn # NoCounts
        num_entries == IF given
                       THEN SumSeq([i \in 1..Len(nn) |-> nn[i] * nn[i]])
                       ELSE max_num_nodes * max_num_nodes * adjs[1]
        pred_adj0 == MatMul(S, Transpose(S))
        embedding_mask == construct_mask_shape(max_num_nodes, Len(nn))
        adj_mask == MatMul(embedding_mask, Transpose(embedding_mask))
        link_loss == Broadcast(adjs, pred_adj0)
        link_ok == IsShape(link_loss) /\ (given => link_loss = adj_mask)
        ent_ok == given => pred_adj0 = adj_mask
        terms == {"primary"}
                 \cup (IF e.linkpred THEN {"link"} ELSE {})
                 \cup (IF e.ent_reg_weight > 0 THEN {"entropy"} ELSE {})
        res(outcome, warned) ==
            [outcome |-> outcome, B |-> adjs[1],
             structural |-> structural, given |-> given,
             warned |-> warned, masked |-> structural /\ given,
             num_entries |-> IF structural THEN num_entries ELSE -1,
             full_entries |-> max_num_nodes * max_num_nodes * adjs[1],
             terms |-> terms,
             loss |-> total_loss(e.linkpred, e.ent_reg_weight),
             reads |-> loss_reads(e.linkpred, e.ent_reg_weight),
             pred_adj0 |-> IF structural /\ S # NoTensor THEN pred_adj0
                           ELSE NoTensor,
             adj |-> adjs]
    IN  IF ~structural THEN res("value", FALSE)
        ELSE IF S = NoTensor THEN res("AttributeError", FALSE)
        ELSE IF e.linkpred /\ ~link_ok THEN res("ShapeError", ~given)
        ELSE IF e.ent_reg_weight > 0 /\ ~ent_ok THEN res("ShapeError", ~given)
        ELSE IF num_entries = 0 THEN res("nonfinite", ~given)
        ELSE res("value", ~given)

Loss ==
    /\ Callable
    /\ \E b \in 1..MaxBatch :
         \E nn \in {NoCounts} \cup [1..b -> 0..cfg.max_num_nodes] :
            lossRes' = loss(enc, assign_tensor,
                            <<b, cfg.max_num_nodes, cfg.max_num_nodes>>, nn)
    /\ UNCHANGED <<others, pc, cfg, enc, batch, stage, x, adj, x_a, embedding_tensor,
                   out_all, output, ypred, assign_tensor, trace>>

---------------------------------------------------------------------------
(* GcnEncoderGraph.construct_mask on values *)

\* construct_mask with the slice one position too long
construct_mask_inclusive(max_nodes, batch_num_nodes) ==
    LET batch_size == Len(batch_num_nodes)
        packed_ok == \A b \in 1..batch_size : batch_num_nodes[b] >= 0
        stop(b) == IF batch_num_nodes[b] + 1 <= max_nodes
                   THEN batch_num_nodes[b] + 1 ELSE max_nodes
        assign_ok == \A b \in 1..batch_size :
                        \/ batch_num_nodes[b] <= max_nodes
                        \/ batch_num_nodes[b] = 1
        out_tensor == [b \in 1..batch_size |->
                         [i \in 1..max_nodes |-> IF i <= stop(b) THEN 1 ELSE 0]]
    IN  IF packed_ok /\ assign_ok
        THEN [outcome |-> "value",
              mask |-> [b \in 1..batch_size |->
                          [i \in 1..max_nodes |-> <<out_tensor[b][i]>>]]]
        ELSE [outcome |-> "RuntimeError", mask |-> <<>>]

\* construct_mask(max_nodes, batch_num_nodes) for a sequence of integer node
\* counts.  The tensor is a sequence of rows, a row a sequence over the node
\* positions 1..max_nodes (position i + 1 is the code's index i), an element
\* the one-element sequence unsqueeze(2) makes of it.
construct_mask(max_nodes, batch_num_nodes) ==
    LET batch_size == Len(batch_num_nodes)
        \* torch.ones(int(num)) is refused for a negative num
        packed_ok == \A b \in 1..batch_size : batch_num_nodes[b] >= 0
        \* out_tensor[i, :num] are the first min(num, max_nodes) positions
        stop(b) == IF batch_num_nodes[b] <= max_nodes
                   THEN batch_num_nodes[b] ELSE max_nodes
        \* the slice takes a tensor of its own length or of length one
        assign_ok == \A b \in 1..batch_size :
                        \/ stop(b) = batch_num_nodes[b]
                        \/ batch_num_nodes[b] = 1
        out_tensor == [b \in 1..batch_size |->
                         [i \in 1..max_nodes |-> IF i <= stop(b) THEN 1 ELSE 0]]
    IN  IF packed_ok /\ assign_ok
        THEN [outcome |-> "value",
              mask |-> [b \in 1..batch_size |->
                          [i \in 1..max_nodes |-> <<out_tensor[b][i]>>]]]
        ELSE [outcome |-> "RuntimeError", mask |-> <<>>]

\* a call construct_mask(N, c) on any node counts, in range or not
MaskCall ==
    /\ \E N \in 0..MaxNodes, B \in 1..MaxBatch :
         \E c \in [1..B -> -1..(N + 1)] :
            mask_call' = [max_nodes |-> N, batch_num_nodes |-> c,
                          result |-> construct_mask(N, c)]
    /\ UNCHANGED <<fvars, flow, assign_vals, dep>>

---------------------------------------------------------------------------
(* The Assign step of the first pooling stage on values *)

\* nn.Softmax(dim=-1) of one row of scores.  An element is the exact fraction
\* <<numerator, denominator>>; the exponential is taken to the base 2, which
\* keeps the fractions in the integers and changes neither the sign nor the
\* normalisation of the elements.
Softmax(row) ==
    LET den == SumSeq([k \in 1..Len(row) |-> 2 ^ row[k]])
    IN  [k \in 1..Len(row) |-> <<2 ^ row[k], den>>]

\* nn.Softmax(dim=-1)(t) of a tensor [B, N, n]
softmax_rows(t) ==
    [b \in DOMAIN t |-> [i \in DOMAIN t[b] |-> Softmax(t[b][i])]]

\* t * embedding_mask for t [B, N, n] of fractions and a mask [B, N, 1]
mask_mul(t, mask) ==
    [b \in DOMAIN t |->
       [i \in DOMAIN t[b] |->
          [k \in DOMAIN t[b][i] |->
             <<t[b][i][k][1] * mask[b][i][1], t[b][i][k][2]>>]]]

\* Lines 351-360 up to the softmax, in an encoder built with max_num_nodes = N
\* and assign_ratio = r / RatioDen, on a batch of B graphs: the mask of the
\* stage and the scores assign_pred returns, [B, N, assign_dim], which are
\* any values, the weights being any.  An encoder with assign_dim = 0 exists
\* in the torch builds that allocate parameters of size zero (see Construct).
AssignScores ==
    /\ assign_vals.pc = "none"
    /\ \E N \in 1..MaxAssignNodes, r \in 1..RatioDen, B \in 1..MaxBatch,
          given \in BOOLEAN :
         \E assign_dim \in {Trunc(N * r, RatioDen)} :
          \E c \in (IF given THEN [1..B -> 0..N] ELSE {NoCounts}),
             z \in [1..B -> [1..N -> [1..assign_dim -> 0..MaxScore]]] :
            assign_vals' =
                [pc |-> "scores", max_num_nodes |-> N, assign_dim |-> assign_dim,
                 B |-> B, given |-> given, batch_num_nodes |-> c,
                 embedding_mask |-> IF given THEN construct_mask(N, c).mask
                                    ELSE <<>>,
                 scores |-> z, softmax |-> <<>>, assign_tensor |-> <<>>]
    /\ UNCHANGED <<fvars, flow, mask_call, dep>>

\* line 360: self.assign_tensor = nn.Softmax(dim=-1)(...)
AssignSoftmax ==
    /\ assign_vals.pc = "scores"
    /\ \E t \in {softmax_rows(assign_vals.scores)} :
         assign_vals' = [assign_vals EXCEPT !.pc = "softmax", !.softmax = t,
                                            !.assign_tensor = t]
    /\ UNCHANGED <<fvars, flow, mask_call, dep>>

\* lines 361-362: self.assign_tensor = self.assign_tensor * embedding_mask
AssignMask ==
    /\ assign_vals.pc = "softmax"
    /\ assign_vals' =
          [assign_vals EXCEPT
             !.pc = "done",
             !.assign_tensor =
                 IF assign_vals.given
                 THEN mask_mul(assign_vals.assign_tensor,
                               assign_vals.embedding_mask)
                 ELSE assign_vals.assign_tensor]
    /\ UNCHANGED <<fvars, flow, mask_call, dep>>

---------------------------------------------------------------------------
(* Dependence of a forward pass on the feature rows of padded nodes *)

(* Two forward passes of one encoder are compared, on batches that differ   *)
(* only in the feature rows of the padded nodes of one entry (finite        *)
(* values).  A tensor [B, n, w] is followed by the set of its rows <<b, i>> *)
(* (entry b in 1..B, node index i in 0..n-1) that can differ between the    *)
(* two passes for some weights; a row not in the set is equal in both.      *)

Rows(B, n) == (1..B) \X (0..(n - 1))

\* GraphConv.forward: row i of adj @ x sums the rows j of x with
\* adj[b, i, j] # 0; add_self adds row i of x; the product with the weight,
\* the bias and the normalisation over the feature axis stay within a row.
\* D: the rows of x that differ, E[b]: the positions <<i, j>> of entry b
\* where adj is not zero, AD: the rows of adj that differ.
GraphConv_forward_dep(add_self, rows, D, E, AD) ==
    LET y == {r \in rows :
                \/ r \in AD
                \/ \E q \in D : q[1] = r[1] /\ <<r[2], q[2]>> \in E[r[1]]}
    IN  IF add_self THEN y \cup D ELSE y

\* nn.BatchNorm1d(n) on [B, n, w]: the channel is the node index.  In
\* training mode a channel is normalised with its mean and variance over
\* the batch and the feature axis; in evaluation mode with stored numbers.
BatchNorm1d_dep(training, rows, D) ==
    IF training THEN {r \in rows : \E q \in D : q[2] = r[2]} ELSE D

\* gcn_forward: the rows of x_tensor that differ.  zeroed: the rows the
\* embedding mask sets to zero (none for embedding_mask = None).
gcn_forward_dep(usebn, training, add_self, num_layers, rows, D0, E, AD, zeroed) ==
    LET conv(D) == GraphConv_forward_dep(add_self, rows, D, E, AD)
        bn(D) == IF usebn THEN BatchNorm1d_dep(training, rows, D) ELSE D
        x_all[l \in 1..num_layers] ==
            IF l = 1 THEN bn(conv(D0))
            ELSE IF l < num_layers THEN bn(conv(x_all[l - 1]))
            ELSE conv(x_all[l - 1])
    IN  UNION {x_all[l] : l \in 1..num_layers} \ zeroed

\* the rows a mask [B, N, 1] sets to zero
ZeroedRows(mask) ==
    {r \in Rows(Len(mask), IF Len(mask) = 0 THEN 0 ELSE Len(mask[1])) :
        mask[r[1]][r[2] + 1] = <<0>>}

\* torch.max(t, dim=1): the entries whose readout vector differs
MaxDim1_dep(D) == {r[1] : r \in D}

\* forward(x, adj, batch_num_nodes) and the same call with other feature
\* rows for the padded nodes (index >= c[p]) of entry p; the adjacency is
\* zero in the rows and columns of padded nodes
DepCall ==
    /\ dep.pc = "none"
    /\ \E B \in 1..MaxBatch, N \in 1..MaxDepNodes, num_layers \in 2..MaxLayers,
          num_pooling \in 0..1, r \in 1..RatioDen,
          concat \in BOOLEAN, training \in BOOLEAN, given \in BOOLEAN,
          connected \in BOOLEAN :
         \E c \in [1..B -> 0..N] :
          \E p \in {b \in 1..B : c[b] < N} :
            dep' = [pc |-> "Initial", B |-> B, n |-> N,
                    batch_num_nodes |-> c, given |-> given, p |-> p,
                    concat |-> concat, training |-> training,
                    num_layers |-> num_layers, num_pooling |-> num_pooling,
                    assign_dim |-> Trunc(N * r, RatioDen),
                    embedding_mask |-> IF given THEN construct_mask(N, c).mask
                                       ELSE <<>>,
                    edges |-> [b \in 1..B |->
                                 IF connected
                                 THEN (0..(c[b] - 1)) \X (0..(c[b] - 1))
                                 ELSE {}],
                    stage |-> 0,
                    x |-> {<<p, i>> : i \in c[p]..(N - 1)},
                    x_a |-> {<<p, i>> : i \in c[p]..(N - 1)},
                    adj |-> {}, embedding_tensor |-> {}, assign_tensor |-> {},
                    out_all |-> <<>>, ypred |-> {}]
    /\ UNCHANGED <<fvars, flow, mask_call, assign_vals>>

\* lines 341-345 and 369-375: gcn_forward and the readout of a stage
DepEmbed ==
    /\ dep.pc \in {"Initial", "Pool"}
    /\ IF dep.n = 0
       THEN dep' = [dep EXCEPT !.pc = "Failed"]
       ELSE \E et \in {gcn_forward_dep(TRUE, dep.training, ~dep.concat,
                                        dep.num_layers, Rows(dep.B, dep.n),
                                        dep.x, dep.edges, dep.adj,
                                        IF dep.stage = 0
                                        THEN ZeroedRows(dep.embedding_mask)
                                        ELSE {})} :
              dep' = [dep EXCEPT !.pc = "Embed", !.embedding_tensor = et,
                                 !.out_all = Append(@, MaxDim1_dep(et))]
    /\ UNCHANGED <<fvars, flow, mask_call, assign_vals>>

\* lines 350-362.  With concat off assign_pred takes rows of width
\* assign_dim and gcn_forward returns wider ones: the step raises.
DepAssign ==
    /\ dep.pc = "Embed" /\ dep.stage < dep.num_pooling
    /\ IF ~dep.concat
       THEN dep' = [dep EXCEPT !.pc = "Failed"]
       ELSE \E zeroed \in {IF dep.stage = 0
                            THEN ZeroedRows(dep.embedding_mask) ELSE {}} :
              dep' = [dep EXCEPT
                        !.pc = "Assign", !.stage = @ + 1,
                        !.assign_tensor =
                            gcn_forward_dep(FALSE, dep.training, ~dep.concat,
                                            dep.num_layers, Rows(dep.B, dep.n),
                                            dep.x_a, dep.edges, dep.adj, zeroed)
                            \ zeroed]
    /\ UNCHANGED <<fvars, flow, mask_call, assign_vals>>

\* lines 365-367: row k of the pooled x sums the rows of embedding_tensor
\* weighted by column k of the assignment matrix, the pooled adj is
\* S^T adj S
DepPool ==
    /\ dep.pc = "Assign"
    /\ \E nx \in {{r \in Rows(dep.B, dep.assign_dim) :
                     \E q \in dep.assign_tensor \cup dep.embedding_tensor :
                        q[1] = r[1]}},
          nadj \in {{r \in Rows(dep.B, dep.assign_dim) :
                       \E q \in dep.assign_tensor : q[1] = r[1]}} :
         dep' = [dep EXCEPT
                   !.pc = "Pool", !.n = dep.assign_dim,
                   !.x = nx, !.x_a = nx, !.adj = nadj,
                   !.edges = [b \in 1..dep.B |->
                                IF dep.edges[b] = {} THEN {}
                                ELSE (0..(dep.assign_dim - 1))
                                     \X (0..(dep.assign_dim - 1))]]
    /\ UNCHANGED <<fvars, flow, mask_call, assign_vals>>

\* lines 382-387.  With concat off the prediction head takes rows of width
\* embedding_dim * (num_pooling + 1) and the readout is wider: it raises.
DepPredict ==
    /\ dep.pc = "Embed" /\ dep.stage = dep.num_pooling
    /\ IF ~dep.concat
       THEN dep' = [dep EXCEPT !.pc = "Failed"]
       ELSE dep' = [dep EXCEPT
                      !.pc = "Terminal",
                      !.ypred = UNION {dep.out_all[s] : s \in 1..Len(dep.out_all)}]
    /\ UNCHANGED <<fvars, flow, mask_call, assign_vals>>

---------------------------------------------------------------------------
(* The tensors read and written by forward and loss *)

(* A tensor is followed by its name <<kind, i>>: <<"x", 0>>, <<"adj", 0>>   *)
(* and <<"assign_x", 0>> are the arguments of forward, <<"x", i>> and       *)
(* <<"adj", i>> what Pool(i) computes, <<"embedding_tensor", i>> what the   *)
(* embedding pass of stage i returns, <<"S", i>> the assignment matrix of   *)
(* stage i.  A local variable of forward holds the name of the tensor it is *)
(* bound to; flow.log lists, for the steps of the running pass, the tensors *)
(* each step read.  self.assign_tensor holds, with the name, the pass and   *)
(* the batch of the forward call that stored it.                            *)

NoAssignTensor == [name |-> <<"unset", 0>>, pass |-> 0, batch |-> 0,
                   complete |-> FALSE]
NoLossCall == [outcome |-> "none"]

\* SoftPoolingGcnEncoder(...): the attribute assign_tensor is not created
FlowConstruct ==
    /\ flow.pc = "NoEncoder"
    /\ \E K \in 0..MaxPooling, structural \in BOOLEAN :
         flow' = [pc |-> "Idle", num_pooling |-> K, structural |-> structural,
                  pass |-> 0, batch |-> 0, stage |-> 0, returned |-> FALSE,
                  x |-> <<"none", 0>>, adj |-> <<"none", 0>>,
                  x_a |-> <<"none", 0>>, embedding_tensor |-> <<"none", 0>>,
                  assign_tensor |-> NoAssignTensor,
                  log |-> <<>>, preds |-> {}, lossCall |-> NoLossCall]
    /\ UNCHANGED <<fvars, mask_call, assign_vals, dep>>

\* lines 318-331: forward(x, adj, batch_num_nodes) on a batch, with or
\* without the keyword argument assign_x
FlowForward ==
    /\ flow.pc = "Idle" /\ flow.pass < MaxPasses
    /\ \E b \in 1..NumBatches, assign_x \in BOOLEAN :
         flow' = [flow EXCEPT
                    !.pc = "Embed", !.pass = @ + 1, !.batch = b, !.stage = 0,
                    !.returned = FALSE,
                    !.x = <<"x", 0>>, !.adj = <<"adj", 0>>,
                    !.x_a = IF assign_x THEN <<"assign_x", 0>> ELSE <<"x", 0>>,
                    !.embedding_tensor = <<"none", 0>>,
                    !.log = <<>>, !.lossCall = NoLossCall]
    /\ UNCHANGED <<fvars, mask_call, assign_vals, dep>>

\* lines 341-342 and 369-371: embedding_tensor = self.gcn_forward(x, adj, ...)
FlowEmbed ==
    /\ flow.pc = "Embed"
    /\ flow' = [flow EXCEPT
                  !.pc = IF flow.stage < flow.num_pooling THEN "Assign"
                         ELSE "Predict",
                  !.embedding_tensor = <<"embedding_tensor", flow.stage>>,
                  !.log = Append(@, [step |-> "Embed", stage |-> flow.stage,
                                     reads |-> <<flow.x, flow.adj>>,
                                     adj_reads |-> <<>>])]
    /\ UNCHANGED <<fvars, mask_call, assign_vals, dep>>

\* lines 350-362 of iteration i = stage: self.assign_tensor is computed from
\* x_a and adj and stored
FlowAssign ==
    /\ flow.pc = "Assign"
    /\ flow' = [flow EXCEPT
                  !.pc = "Pool", !.stage = @ + 1,
                  !.assign_tensor = [name |-> <<"S", flow.stage + 1>>,
                                     pass |-> flow.pass, batch |-> flow.batch,
                                     complete |-> TRUE],
                  !.log = Append(@, [step |-> "Assign", stage |-> flow.stage + 1,
                                     reads |-> <<flow.x_a, flow.adj>>,
                                     adj_reads |-> <<>>])]
    /\ UNCHANGED <<fvars, mask_call, assign_vals, dep>>

\* FlowPool with the pooled features computed from the assignment-path
\* features
FlowPool_assign_path ==
    /\ flow.pc = "Pool"
    /\ flow' = [flow EXCEPT
                  !.pc = "Embed",
                  !.x = <<"x", flow.stage>>,
                  !.adj = <<"adj", flow.stage>>,
                  !.x_a = <<"x", flow.stage>>,
                  !.log = Append(@, [step |-> "Pool", stage |-> flow.stage,
                                     reads |-> <<flow.assign_tensor.name,
                                                 flow.x_a>>,
                                     adj_reads |-> <<flow.assign_tensor.name,
                                                     flow.adj,
                                                     flow.assign_tensor.name>>])]
    /\ UNCHANGED <<fvars, mask_call, assign_vals, dep>>

\* lines 365-367: x = S^T @ embedding_tensor, adj = S^T @ adj @ S, x_a = x
FlowPool ==
    /\ flow.pc = "Pool"
    /\ flow' = [flow EXCEPT
                  !.pc = "Embed",
                  !.x = <<"x", flow.stage>>,
                  !.adj = <<"adj", flow.stage>>,
                  !.x_a = <<"x", flow.stage>>,
                  !.log = Append(@, [step |-> "Pool", stage |-> flow.stage,
                                     reads |-> <<flow.assign_tensor.name,
                                                 flow.embedding_tensor>>,
                                     adj_reads |-> <<flow.assign_tensor.name,
                                                     flow.adj,
                                                     flow.assign_tensor.name>>])]
    /\ UNCHANGED <<fvars, mask_call, assign_vals, dep>>

\* lines 382-387: the pass returns its predictions
FlowPredict ==
    /\ flow.pc = "Predict"
    /\ flow' = [flow EXCEPT
                  !.pc = "Idle", !.returned = TRUE,
                  !.preds = @ \cup {<<flow.pass, flow.batch>>}]
    /\ UNCHANGED <<fvars, mask_call, assign_vals, dep>>

\* an operation of the running step raises (see Raise): the pass ends
\* without predictions.  In Assign, self.assign_tensor has been left as it
\* was or stores an intermediate tensor of lines 356 and 360.
FlowRaise ==
    /\ flow.pc \in {"Embed", "Assign", "Pool", "Predict"}
    /\ \E stored \in BOOLEAN :
         /\ stored => flow.pc = "Assign"
         /\ flow' = [flow EXCEPT
                       !.pc = "Idle",
                       !.assign_tensor =
                           IF stored
                           THEN [name |-> <<"S", flow.stage + 1>>,
                                 pass |-> flow.pass, batch |-> flow.batch,
                                 complete |-> FALSE]
                           ELSE @]
    /\ UNCHANGED <<fvars, mask_call, assign_vals, dep>>

\* lines 389-399: loss(pred, label, adj, batch_num_nodes) with the
\* predictions of a pass that returned, or with predictions <<0, b>> made
\* by no pass of this encoder; with a structural loss on, line 399 reads
\* self.assign_tensor
FlowLoss ==
    /\ flow.pc = "Idle"
    /\ \E pred \in flow.preds \cup {<<0, b>> : b \in 1..NumBatches} :
         flow' = [flow EXCEPT
                    !.lossCall =
                        [outcome |-> IF flow.structural
                                        /\ flow.assign_tensor = NoAssignTensor
                                     THEN "AttributeError" ELSE "returned",
                         pred |-> pred,
                         structural |-> flow.structural,
                         S |-> IF flow.structural THEN flow.assign_tensor
                               ELSE NoAssignTensor]]
    /\ UNCHANGED <<fvars, mask_call, assign_vals, dep>>

---------------------------------------------------------------------------
(* Specifications *)

Forward == ForwardCall \/ Initial \/ Embed \/ Assign \/ Pool \/ Aggregate
           \/ Predict

\* construction and forward passes over all layer widths
Next == Construct(Configs) \/ ForwardCall \/ Initial \/ Embed \/ Assign \/ Pool
        \/ Aggregate \/ Predict

Spec == Init /\ [][Next]_vars

\* construction, forward passes and loss evaluations
NextLoss == Construct(LossConfigs) \/ ForwardCall \/ Initial \/ Embed \/ Assign
            \/ Pool \/ Aggregate \/ Predict \/ Loss

SpecLoss == Init /\ [][NextLoss]_vars

\* calls of construct_mask
NextMask == MaskCall

SpecMask == Init /\ [][NextMask]_vars

\* Assign steps of the first pooling stage
NextAssign == AssignScores \/ AssignSoftmax \/ AssignMask

SpecAssign == Init /\ [][NextAssign]_vars

\* forward passes compared on batches that differ in padded feature rows
NextDep == DepCall \/ DepEmbed \/ DepAssign \/ DepPool \/ DepPredict

SpecDep == Init /\ [][NextDep]_vars

\* forward and loss calls on one encoder, in any order
NextFlow == FlowConstruct \/ FlowForward \/ FlowEmbed \/ FlowAssign \/ FlowPool
            \/ FlowPredict \/ FlowRaise \/ FlowLoss

SpecFlow == Init /\ [][NextFlow]_vars


---------------------------------------------------------------------------
(* The properties *)

Constructed == pc \notin {"NoEncoder", "ConstructFailed"}

\* the stage node counts of the specification: n_0 = N,
\* n_i = floor(n_{i-1} * shrink_ratio)
StageNodes(c, i) ==
    LET n[k \in 0..i] ==
            IF k = 0 THEN c.max_num_nodes
            ELSE (n[k - 1] * c.ratio_num) \div RatioDen
    IN  n[i]

\* a valid configuration: positive widths, at least two layers per stack, a
\* positive shrink ratio and positive node counts at all stages
ValidConfig(c) ==
    /\ c.max_num_nodes > 0 /\ c.input_dim > 0 /\ c.hidden_dim > 0
    /\ c.embedding_dim > 0 /\ c.label_dim > 0 /\ c.assign_hidden_dim > 0
    /\ c.num_layers >= 2
    /\ c.assign_num_layers = -1 \/ c.assign_num_layers >= 2
    /\ c.num_pooling >= 0
    /\ c.ratio_num > 0
    /\ \A i \in 1..c.num_pooling : StageNodes(c, i) > 0

\* C1: for every valid configuration and every batch [B,N,F] / [B,N,N], no
\* operation of the forward pass fails for its operands' shapes, and the
\* returned label scores have shape [B, label_dim].
C1_ForwardShape ==
    (Constructed /\ ValidConfig(cfg)) =>
        /\ pc # "Failed"
        /\ pc = "Terminal" => ypred = <<batch.B, cfg.label_dim>>

\* the steps of one forward pass with K pooling stages, in order
ExpectedOrder(K) ==
    [j \in 1..(3 * K + 5) |->
        IF j = 1 THEN <<"Initial", 0>>
        ELSE IF j = 2 THEN <<"Embed", 0>>
        ELSE IF j = 3 * K + 3 THEN <<"Aggregate", 0>>
        ELSE IF j = 3 * K + 4 THEN <<"Predict", 0>>
        ELSE IF j = 3 * K + 5 THEN <<"Terminal", 0>>
        ELSE <<CASE (j - 3) % 3 = 0 -> "Assign"
                 [] (j - 3) % 3 = 1 -> "Pool"
                 [] OTHER -> "Embed",
               ((j - 3) \div 3) + 1>>]

IsPrefix(s, t) == Len(s) <= Len(t) /\ \A i \in 1..Len(s) : s[i] = t[i]

InForward == pc \in {"Initial", "Embed", "Assign", "Pool", "Aggregate", "Predict",
                     "Terminal", "Failed"}

\* the first configurations of C1: concat on, the assignment stacks as deep
\* as the embedding stacks, and one pooling stage at most unless the ratio
\* is 1
C1_ConsistentWidths ==
    (Constructed /\ ValidConfig(cfg) /\ cfg.concat
       /\ (cfg.num_pooling = 0 \/ cfg.assign_num_layers \in {-1, cfg.num_layers})
       /\ (cfg.num_pooling <= 1 \/ cfg.ratio_num = RatioDen)) =>
        /\ pc # "Failed"
        /\ pc = "Terminal" => ypred = <<batch.B, cfg.label_dim>>

\* C2: a forward pass of a (valid) encoder with K pooling stages visits
\* Initial, Embed(0), then Assign(i), Pool(i), Embed(i) for i = 1..K, then
\* Aggregate, Predict, Terminal, in this order and without leaving the
\* sequence; it is never abandoned before Terminal; and Aggregate is entered
\* with K+1 readout vectors accumulated.
C2_StepOrder ==
    (InForward /\ ValidConfig(cfg)) =>
        /\ IsPrefix(trace, ExpectedOrder(cfg.num_pooling))
        /\ pc # "Failed"
        /\ pc = "Aggregate" => Len(out_all) = cfg.num_pooling + 1
        /\ pc = "Terminal" => trace = ExpectedOrder(cfg.num_pooling)
        /\ cfg.num_pooling = 0 =>
              \A i \in 1..Len(trace) : trace[i][1] \notin {"Assign", "Pool"}

\* the order of the steps alone: a pass, abandoned or not, has visited a
\* prefix of the expected sequence
C2_OrderOnly ==
    (InForward /\ ValidConfig(cfg)) =>
        /\ IsPrefix(trace, ExpectedOrder(cfg.num_pooling))
        /\ pc = "Aggregate" => Len(out_all) = cfg.num_pooling + 1
        /\ pc = "Terminal" => trace = ExpectedOrder(cfg.num_pooling)

\* C3: in a (valid) encoder, the assignment module of stage i has n_i output
\* columns and the batch normalisation layers after pooling stage i have
\* node width n_i; the adjacency Pool(i) produces has shape [B, n_i, n_i].
C3_StageNodeCounts ==
    (Constructed /\ ValidConfig(cfg)) =>
        /\ \A i \in 1..cfg.num_pooling :
              /\ enc.assign_dims[i] = StageNodes(cfg, i)
              /\ \A j \in 1..(cfg.num_layers - 1) :
                    enc.pooling_bn_layers[i][j].num_features = StageNodes(cfg, i)
        /\ (pc = "Embed" /\ stage >= 1) =>
              adj = <<batch.B, StageNodes(cfg, stage), StageNodes(cfg, stage)>>

\* the mask element of batch entry b (1..B) at the code's node index i (0..N-1)
MaskAt(b, i) == mask_call.result.mask[b][i + 1]

MaskCountsInRange ==
    /\ mask_call.result.outcome # "none"
    /\ \A b \in 1..Len(mask_call.batch_num_nodes) :
          /\ 0 <= mask_call.batch_num_nodes[b]
          /\ mask_call.batch_num_nodes[b] <= mask_call.max_nodes

\* C4: for node counts c with 0 <= c[b] <= N, construct_mask(N, c) returns a
\* [B,N,1] mask with mask[b,i] = 1 if i < c[b] and 0 otherwise; for each b
\* the mask is non-increasing in i and has c[b] ones.
C4_ConstructMask ==
    MaskCountsInRange =>
        LET N == mask_call.max_nodes
            c == mask_call.batch_num_nodes
            r == mask_call.result
        IN  /\ r.outcome = "value"
            /\ DOMAIN r.mask = 1..Len(c)
            /\ \A b \in 1..Len(c) :
                  /\ DOMAIN r.mask[b] = 1..N
                  /\ \A i \in 0..(N - 1) :
                        MaskAt(b, i) = <<IF i < c[b] THEN 1 ELSE 0>>
                  /\ \A i, j \in 0..(N - 1) :
                        i <= j => MaskAt(b, i)[1] >= MaskAt(b, j)[1]
                  /\ Cardinality({i \in 0..(N - 1) : MaskAt(b, i)[1] = 1}) = c[b]

\* a mask has been built for a batch with an empty graph, a graph with
\* padding and a graph without
C4_Witness ==
    /\ MaskCountsInRange
    /\ mask_call.result.outcome = "value"
    /\ \E b \in 1..Len(mask_call.batch_num_nodes) :
          /\ 0 < mask_call.batch_num_nodes[b]
          /\ mask_call.batch_num_nodes[b] < mask_call.max_nodes
    /\ \E b \in 1..Len(mask_call.batch_num_nodes) :
          mask_call.batch_num_nodes[b] = mask_call.max_nodes

\* the elements of a row of fractions sum to 1
RowSumsToOne(row) ==
    /\ Len(row) > 0
    /\ SumSeq([k \in 1..Len(row) |-> row[k][1]]) = row[1][2]

RowIsZero(row) == \A k \in 1..Len(row) : row[k][1] = 0

\* the Assign step of stage 1 has finished on a batch with node counts
AssignedWithCounts == assign_vals.pc = "done" /\ assign_vals.given

RowStochastic ==
    LET S == assign_vals.assign_tensor
        c == assign_vals.batch_num_nodes
    IN  /\ S = mask_mul(assign_vals.softmax, assign_vals.embedding_mask)
        /\ \A b \in 1..assign_vals.B :
              \A i \in 0..(assign_vals.max_num_nodes - 1) :
                 /\ i < c[b] => /\ RowSumsToOne(S[b][i + 1])
                                /\ S[b][i + 1] = assign_vals.softmax[b][i + 1]
                 /\ i >= c[b] => RowIsZero(S[b][i + 1])

\* C5: after the Assign step of the first pooling stage on a batch with node
\* counts, the assignment matrix is the row-wise softmax multiplied by the
\* mask: the row of every valid node is the softmax row, unchanged, and sums
\* to 1 over the output columns; the row of every padded node is zero.
C5_RowStochastic == AssignedWithCounts => RowStochastic

\* the same for the encoders whose first stage has at least one node
C5_NonEmptyStage ==
    (AssignedWithCounts /\ assign_vals.assign_dim >= 1) => RowStochastic

\* no readout computed so far differs between the two passes
ReadoutsEqual == \A s \in 1..Len(dep.out_all) : dep.out_all[s] = {}

\* C10: with node counts supplied and batch normalisation on, the readout
\* vectors of every stage, of every batch entry, are the same for two
\* feature tensors that differ only in the rows of the padded nodes of one
\* entry, with concat on (self-loop off) and with concat off (self-loop on).
C10_PaddingIndependence ==
    (dep.pc # "none" /\ dep.given) => ReadoutsEqual

\* the same with concat on only, node counts supplied or not
C10_ConcatOn ==
    (dep.pc # "none" /\ dep.concat) => ReadoutsEqual /\ dep.ypred = {}

\* the same with batch normalisation in evaluation mode
C10_EvalMode ==
    (dep.pc # "none" /\ dep.given /\ ~dep.training) => ReadoutsEqual

\* C6: after Aggregate, the representation handed to the prediction head is
\* the concatenation of all K+1 readouts in stage order when concat is on
\* and the last readout when it is off, and its width is the input width the
\* prediction head was built with.
C6_Aggregate ==
    (pc = "Predict" /\ ValidConfig(cfg)) =>
        /\ enc.concat =>
              /\ Len(out_all) = cfg.num_pooling + 1
              /\ output = <<batch.B,
                            SumSeq([i \in 1..Len(out_all) |-> out_all[i][2]])>>
        /\ ~enc.concat => output = out_all[Len(out_all)]
        /\ output[2] = enc.pred_model[1].input_dim

\* C8: no encoder is constructed from a configuration with a non-positive
\* shrink ratio or with a stage whose node count is not positive.
C8_ConstructionRejects ==
    Constructed =>
        /\ cfg.ratio_num > 0
        /\ \A i \in 1..cfg.num_pooling : StageNodes(cfg, i) > 0

\* a loss call has been made on a valid encoder for the batch of the forward
\* pass that just returned
LossAfterForward ==
    /\ pc = "Terminal" /\ ValidConfig(cfg)
    /\ lossRes.outcome # "none" /\ lossRes.B = batch.B

\* C7: with a structural loss enabled and node counts supplied, a valid-pair
\* count of zero ends loss evaluation in an error; no value is returned from
\* a division by zero.
C7_PairCountChecked ==
    (LossAfterForward /\ lossRes.structural /\ lossRes.given
       /\ lossRes.num_entries = 0)
    => lossRes.outcome \notin {"value", "nonfinite"}

\* C9: with a structural loss enabled and no node counts supplied, loss
\* evaluation does not fail: it warns, masks nothing, divides by B*N*N and
\* returns a loss; with both structural losses disabled it does not warn.
C9_UnmaskedWarning ==
    LossAfterForward =>
        /\ (lossRes.structural /\ ~lossRes.given) =>
              /\ lossRes.outcome = "value"
              /\ lossRes.warned
              /\ ~lossRes.masked
              /\ lossRes.num_entries = lossRes.full_entries
        /\ ~lossRes.structural => ~lossRes.warned

\* the same for the encoders with at least one pooling stage
C9_WithPooling ==
    (LossAfterForward /\ cfg.num_pooling >= 1) =>
        /\ (lossRes.structural /\ ~lossRes.given) =>
              /\ lossRes.outcome = "value"
              /\ lossRes.warned
              /\ ~lossRes.masked
              /\ lossRes.num_entries = lossRes.full_entries
        /\ ~lossRes.structural => ~lossRes.warned

\* a loss call has returned a value
LossReturned == Constructed /\ lossRes.outcome \in {"value", "nonfinite"}

LossAfterPooling ==
    /\ pc \in {"Terminal", "Failed"} /\ ValidConfig(cfg)
    /\ cfg.num_pooling >= 1
    /\ \E i \in 1..Len(trace) : trace[i] = <<"Pool", cfg.num_pooling>>
    /\ lossRes.outcome # "none" /\ lossRes.B = batch.B
    /\ lossRes.structural /\ lossRes.given

ReconstructionConforms ==
    /\ lossRes.pred_adj0 = lossRes.adj
    /\ lossRes.pred_adj0 =
          MatMul(construct_mask_shape(cfg.max_num_nodes, lossRes.B),
                 Transpose(construct_mask_shape(cfg.max_num_nodes, lossRes.B)))
    /\ lossRes.outcome # "ShapeError"

\* C13: for every K >= 1, when loss is evaluated after a forward pass with
\* the adjacency [B,N,N] and the node counts of the batch, S * S^T of the
\* retained assignment matrix S has the shape [B,N,N] of the adjacency and
\* of the mask of valid pairs, and the elementwise operations of the
\* structural losses apply.
C13_ReconstructedShape == LossAfterPooling => ReconstructionConforms

\* the same for the forward passes that returned
C13_ReturnedPass ==
    (LossAfterPooling /\ pc = "Terminal") => ReconstructionConforms

\* the steps of the running forward pass have read, in stage i: Assign the
\* adjacency <<"adj", i-1>> and the assignment-path features; Pool the
\* matrix of Assign(i), the embedding tensor of stage i-1 and, once, the
\* adjacency Assign(i) read
FlowReadsInOrder ==
    \A k \in 1..Len(flow.log) :
       LET e == flow.log[k]
       IN  /\ e.step = "Assign" =>
                /\ e.reads[2] = <<"adj", e.stage - 1>>
                /\ e.reads[1] \in (IF e.stage = 1
                                    THEN {<<"x", 0>>, <<"assign_x", 0>>}
                                    ELSE {<<"x", e.stage - 1>>})
           /\ e.step = "Pool" =>
                /\ e.reads = << <<"S", e.stage>>,
                                <<"embedding_tensor", e.stage - 1>> >>
                /\ e.adj_reads = << <<"S", e.stage>>, <<"adj", e.stage - 1>>,
                                    <<"S", e.stage>> >>
                /\ k > 1 /\ flow.log[k - 1].step = "Assign"
                /\ flow.log[k - 1].stage = e.stage
                /\ flow.log[k - 1].reads[2] = e.adj_reads[2]
                /\ flow.log[k - 1].reads[1] # e.reads[2]

\* the matrix Assign(i) stored is retained until Assign(i+1), and the one of
\* stage K after a pass that returned
FlowRetainsLast ==
    /\ (flow.pc \in {"Pool", "Embed", "Predict"} /\ flow.stage >= 1) =>
          flow.assign_tensor = [name |-> <<"S", flow.stage>>,
                                pass |-> flow.pass, batch |-> flow.batch,
                                complete |-> TRUE]
    /\ (flow.pc = "Idle" /\ flow.returned /\ flow.num_pooling >= 1) =>
          flow.assign_tensor = [name |-> <<"S", flow.num_pooling>>,
                                pass |-> flow.pass, batch |-> flow.batch,
                                complete |-> TRUE]

\* C12: in every pooling stage Assign reads the adjacency as it is before
\* the Pool step of the stage; Pool computes the new features and the new
\* adjacency from that adjacency and from the embedding tensor of the
\* previous stage, not from the assignment-path features; every Assign
\* overwrites the retained matrix, which after a pass with K >= 1 is the
\* one of stage K.
C12_PoolingDataFlow ==
    flow.pc # "NoEncoder" => FlowReadsInOrder /\ FlowRetainsLast

\* a pass with two pooling stages, begun with assign_x, has returned
C12_Witness ==
    /\ flow.pc = "Idle" /\ flow.returned /\ flow.num_pooling = 2
    /\ Len(flow.log) = 7
    /\ flow.log[2].reads[1] = <<"assign_x", 0>>
    /\ flow.log[6].step = "Pool" /\ flow.log[6].stage = 2

\* loss has been called with a structural loss on
FlowStructuralLoss ==
    /\ flow.pc # "NoEncoder"
    /\ flow.lossCall.outcome # "none"
    /\ flow.lossCall.structural

\* C14: whenever loss is evaluated with a structural loss on, in any
\* sequence of forward and loss calls (K = 0 and loss as the first call
\* included), self.assign_tensor exists and was stored by the forward pass
\* that returned the predictions passed to loss.
C14_RetainedMatrix ==
    FlowStructuralLoss =>
        /\ flow.lossCall.outcome = "returned"
        /\ flow.lossCall.S # NoAssignTensor
        /\ flow.lossCall.S.pass = flow.lossCall.pred[1]
        /\ flow.lossCall.S.batch = flow.lossCall.pred[2]

\* the same for K >= 1 and the predictions of the last forward call, which
\* returned
C14_LastPass ==
    (FlowStructuralLoss /\ flow.num_pooling >= 1 /\ flow.returned
       /\ flow.lossCall.pred = <<flow.pass, flow.batch>>) =>
        /\ flow.lossCall.outcome = "returned"
        /\ flow.lossCall.S = [name |-> <<"S", flow.num_pooling>>,
                              pass |-> flow.pass, batch |-> flow.batch,
                              complete |-> TRUE]

============================================================================
